---- MODULE Spec2Model ----
(***************************************************************************)
(* Model of csv2excel: the table (CSV) type of internal/file/file.go with  *)
(* its type inference, conversion and Merge, and the concurrent            *)
(* processFiles of the merge command.                                      *)
(*                                                                         *)
(* Text is a sequence of one-character strings, so that strconv.ParseInt,  *)
(* strconv.ParseFloat, strings.TrimSpace and strings.HasSuffix are         *)
(* computed from the characters.  A cell (interface{}) is a tagged value:  *)
(*   [t |-> "string",  s |-> text]                                         *)
(*   [t |-> "int64",   v |-> integer]                                      *)
(*   [t |-> "float64", m |-> mantissa, e |-> digits after the point]       *)
(* A float64 is kept as the decimal m / 10^e with trailing zeros removed:  *)
(* within the text lengths used here distinct decimals are distinct        *)
(* float64 values and no int64/float64 range error can occur.              *)
(***************************************************************************)
EXTENDS Integers, Sequences, FiniteSets, TLC

VARIABLES
  c, c0, c1, cpc,            \* one table under inference and conversion
  mfiles, mfiles0, mret, mpc, \* one call of Merge
  \* one call of processFiles
  filePaths,  \* the argument
  pc,         \* where the caller's goroutine is: "loop", "range", "done"
  idx,        \* the for loop's position in filePaths
  workers,    \* per path position, the goroutine started for it
  wg,         \* the WaitGroup's counter
  closer,     \* the goroutine of wg.Wait(); close(resultChannel)
  closed,     \* resultChannel is closed
  errors,     \* var errors []error
  files,      \* var files []*file.CSV
  ret,        \* what processFiles returned
  readCalls,  \* the path positions whose worker has called f.Read()
  sends,      \* per path position, the sends its worker has completed
  mergeArgs,  \* the argument list file.Merge was called with, or Nil
  \* a caller of the package's public operations
  tabs,       \* the tables it holds
  panicked,   \* an index out of range has ended the program
  nops        \* the operations called so far

convertVars == <<c, c0, c1, cpc>>
mergeVars == <<mfiles, mfiles0, mret, mpc>>
ingestVars == <<filePaths, pc, idx, workers, wg, closer, closed, errors,
                files, ret, readCalls, sends, mergeArgs>>
opsVars == <<tabs, panicked, nops>>
vars == <<convertVars, mergeVars, ingestVars, opsVars>>

Nil == [nil |-> TRUE]

\* the variables of the calls a specification does not make

ConvertIdle ==
  /\ c = Nil
  /\ c0 = Nil
  /\ c1 = Nil
  /\ cpc = "idle"

IngestIdle ==
  /\ filePaths = <<>>
  /\ pc = "idle"
  /\ idx = 0
  /\ workers = <<>>
  /\ wg = 0
  /\ closer = "none"
  /\ closed = FALSE
  /\ errors = <<>>
  /\ files = <<>>
  /\ ret = Nil
  /\ readCalls = {}
  /\ sends = <<>>
  /\ mergeArgs = Nil

MergeIdle ==
  /\ mfiles = <<>>
  /\ mfiles0 = <<>>
  /\ mret = Nil
  /\ mpc = "idle"

OpsIdle ==
  /\ tabs = <<>>
  /\ panicked = FALSE
  /\ nops = 0

\* ---------------------------------------------------------------- bounds
MaxRows == 21
MaxTables == 3
MaxMergeRows == 2
MaxPaths == 3
MaxOps == 4
MaxHeld == 2

\* ------------------------------------------------------ program constants
defaultTypeInferanceRows == 20

StringType == 1
FloatType == 2
IntegerType == 3

ColumnTypes == {StringType, FloatType, IntegerType}

\* ------------------------------------------------------------------ text
Digits == {"0", "1", "2", "3", "4", "5", "6", "7", "8", "9"}

DigitVal(ch) ==
  CASE ch = "0" -> 0 [] ch = "1" -> 1 [] ch = "2" -> 2 [] ch = "3" -> 3
    [] ch = "4" -> 4 [] ch = "5" -> 5 [] ch = "6" -> 6 [] ch = "7" -> 7
    [] ch = "8" -> 8 [] ch = "9" -> 9

Min(a, b) == IF a < b THEN a ELSE b

AllDigits(s) == \A k \in 1..Len(s) : s[k] \in Digits

RECURSIVE NatVal(_)
NatVal(s) ==
  IF s = <<>> THEN 0
  ELSE NatVal(SubSeq(s, 1, Len(s) - 1)) * 10 + DigitVal(s[Len(s)])

Unsigned(s) == IF s # <<>> /\ s[1] \in {"+", "-"} THEN Tail(s) ELSE s

Negative(s) == s # <<>> /\ s[1] = "-"

\* strconv.ParseInt(s, 10, 64): optional sign, then one or more decimal
\* digits.  err == nil is ok = TRUE.
ParseInt(s) ==
  LET body == Unsigned(s)
  IN IF body = <<>> \/ ~AllDigits(body)
     THEN [ok |-> FALSE, v |-> 0]
     ELSE [ok |-> TRUE,
           v |-> IF Negative(s) THEN 0 - NatVal(body) ELSE NatVal(body)]

RECURSIVE Normalize(_, _)
Normalize(m, e) ==
  IF e > 0 /\ m % 10 = 0 THEN Normalize(m \div 10, e - 1)
  ELSE [m |-> m, e |-> e]

\* strconv.ParseFloat(s, 64) on decimal text: optional sign, digits with at
\* most one point, at least one digit.
ParseFloat(s) ==
  LET body == Unsigned(s)
      dots == {k \in 1..Len(body) : body[k] = "."}
      digs == SelectSeq(body, LAMBDA ch : ch # ".")
  IN IF Cardinality(dots) > 1 \/ digs = <<>> \/ ~AllDigits(digs)
     THEN [ok |-> FALSE, m |-> 0, e |-> 0]
     ELSE LET e == IF dots = {} THEN 0
                   ELSE Len(body) - (CHOOSE k \in dots : TRUE)
              n == Normalize(NatVal(digs), e)
          IN [ok |-> TRUE,
              m |-> IF Negative(s) THEN 0 - n.m ELSE n.m,
              e |-> n.e]

\* ----------------------------------------------------------------- cells
TextCell(s) == [t |-> "string", s |-> s]
IntCell(v) == [t |-> "int64", v |-> v]
FloatCell(m, e) == [t |-> "float64", m |-> m, e |-> e]

IsText(cell) == cell.t = "string"

\* ----------------------------------------------------------------- table
Column(name, type) == [Name |-> name, Type |-> type]

CSV(path, delim, headers, records) ==
  [FilePath |-> path, Delimiter |-> delim, Headers |-> headers,
   Records |-> records]

\* ------------------------------------------------------- inferColumnTypes
rangeToCheck(records) == Min(defaultTypeInferanceRows, Len(records))

\* the cell counts of column i over the sample Records[:rangeToCheck]
floatCount(records, i) ==
  Cardinality({r \in 1..rangeToCheck(records) :
     /\ IsText(records[r][i])
     /\ ParseFloat(records[r][i].s).ok})

intCount(records, i) ==
  Cardinality({r \in 1..rangeToCheck(records) :
     /\ IsText(records[r][i])
     /\ ~ParseFloat(records[r][i].s).ok
     /\ ParseInt(records[r][i].s).ok})

\* the if / else-if that ends the loop body
DecideResetMut(old, fc, ic, rtc) ==
  IF fc = rtc THEN FloatType
  ELSE IF ic = rtc THEN IntegerType
  ELSE StringType

DecideAnyMut(old, fc, ic, rtc) ==
  IF fc + ic > 0 \/ fc = rtc THEN FloatType
  ELSE old

Decide(old, fc, ic, rtc) ==
  IF fc = rtc THEN FloatType
  ELSE IF ic = rtc THEN IntegerType
  ELSE old

inferColumnTypes(headers, records) ==
  [i \in 1..Len(headers) |->
     Column(headers[i].Name,
            Decide(headers[i].Type, floatCount(records, i),
                   intCount(records, i), rangeToCheck(records)))]

\* ----------------------------------------------------- ConvertColumnTypes
\* the switch on c.Headers[i].Type applied to one cell
ConvertCell(cell, type) ==
  IF ~IsText(cell) THEN cell
  ELSE IF type = FloatType
       THEN LET f == ParseFloat(cell.s)
            IN IF f.ok THEN FloatCell(f.m, f.e) ELSE cell
  ELSE IF type = IntegerType
       THEN LET n == ParseInt(cell.s)
            IN IF n.ok THEN IntCell(n.v) ELSE cell
  ELSE cell

\* record[i] for i over the headers is an index out of range on a record
\* shorter than the headers
IndexPanics(t) ==
  \E r \in 1..Len(t.Records) : Len(t.Records[r]) < Len(t.Headers)

\* the cells are replaced in place: a record keeps its length
ConvertColumnTypes(t) ==
  LET hs == inferColumnTypes(t.Headers, t.Records)
  IN CSV(t.FilePath, t.Delimiter, hs,
         [r \in 1..Len(t.Records) |->
            [i \in 1..Len(t.Records[r]) |->
               IF i <= Len(hs) THEN ConvertCell(t.Records[r][i], hs[i].Type)
               ELSE t.Records[r][i]]])


\* ----------------------------------------------------------------- Merge
\* the loop over files[1:] that compares column counts: the first file
\* whose count differs from files[0]'s, 0 when there is none
mismatchLastSkippedMut(list) ==
  LET bad == {j \in 2..(Len(list) - 1) :
                Len(list[1].Headers) # Len(list[j].Headers)}
  IN IF bad = {} THEN 0 ELSE CHOOSE j \in bad : \A q \in bad : j <= q

mismatch(list) ==
  LET bad == {j \in 2..Len(list) :
                Len(list[1].Headers) # Len(list[j].Headers)}
  IN IF bad = {} THEN 0 ELSE CHOOSE j \in bad : \A q \in bad : j <= q

\* the loop mergedFiles = append(mergedFiles, file.Records...)
RECURSIVE mergedFilesPrependMut(_)
mergedFilesPrependMut(list) ==
  IF list = <<>> THEN <<>>
  ELSE list[Len(list)].Records
         \o mergedFilesPrependMut(SubSeq(list, 1, Len(list) - 1))

RECURSIVE mergedFiles(_)
mergedFiles(list) ==
  IF list = <<>> THEN <<>>
  ELSE mergedFiles(SubSeq(list, 1, Len(list) - 1))
         \o list[Len(list)].Records

ErrNoFiles == [msg |-> "no files to merge"]

ErrInconsistent(file, first) ==
  [msg |-> "inconsistent number of columns", file |-> file.FilePath,
   first |-> first.FilePath]

\* Merge(files...) returns (f, err)
Merge(list) ==
  IF Len(list) = 0 THEN [f |-> Nil, err |-> ErrNoFiles]
  ELSE IF mismatch(list) # 0
  THEN [f |-> Nil, err |-> ErrInconsistent(list[mismatch(list)], list[1])]
  ELSE [f |-> CSV(<<>>, list[1].Delimiter, list[1].Headers,
                  mergedFiles(list)),
        err |-> Nil]


\* ------------------------------------------------------------- CSV.Read
\* strings.TrimSpace on the space character
RECURSIVE TrimSpace(_)
TrimSpace(s) ==
  IF s = <<>> THEN s
  ELSE IF s[1] = " " THEN TrimSpace(Tail(s))
  ELSE IF s[Len(s)] = " " THEN TrimSpace(SubSeq(s, 1, Len(s) - 1))
  ELSE s

HasSuffix(s, suffix) ==
  /\ Len(s) >= Len(suffix)
  /\ SubSeq(s, Len(s) - Len(suffix) + 1, Len(s)) = suffix

DotCsv == <<".", "c", "s", "v">>

\* The sources on disk, by path.  A source is its records as the csv
\* reader tokenizes them under the delimiter; quoteError is a source whose
\* quoting the reader rejects.  Any other path does not exist.
Source(records) == [exists |-> TRUE, quoteError |-> FALSE, records |-> records]

NoSource == [exists |-> FALSE, quoteError |-> FALSE, records |-> <<>>]

PathA == <<"a", ".", "c", "s", "v">>
PathB == <<"b", ".", "c", "s", "v">>
PathW == <<"w", ".", "c", "s", "v">>
PathE == <<"e", ".", "c", "s", "v">>
PathN == <<"n", ".", "c", "s", "v">>
PathQ == <<"q", ".", "c", "s", "v">>
PathH == <<"h", ".", "c", "s", "v">>
PathTxt == <<"c", ".", "t", "x", "t">>
PathSpaced == <<" ", "b", ".", "c", "s", "v", " ">>

Disk(path) ==
  CASE path = PathA ->
         Source(<< << <<"h", "1">>, <<"h", "2">> >>, << <<"1">>, <<"2">> >> >>)
    [] path = PathB ->
         Source(<< << <<"h", "1">>, <<"h", "2">> >>, << <<"3">>, <<"4">> >> >>)
    [] path = PathW ->
         Source(<< << <<"h", "1">>, <<"h", "2">>, <<"h", "3">> >>,
                   << <<"5">>, <<"6">>, <<"7">> >> >>)
    [] path = PathH ->
         Source(<< << <<"h", "1">>, <<"h", "2">> >> >>)
    [] path = PathE -> Source(<<>>)
    [] path = PathQ ->
         [exists |-> TRUE, quoteError |-> TRUE, records |-> <<>>]
    [] OTHER -> NoSource

\* os.Open, csv.NewReader(file).ReadAll(): the records, or the error.  The
\* reader takes the field count of the first record and rejects a record
\* of another length.
ReadAll(path) ==
  LET src == Disk(path)
  IN IF ~src.exists
     THEN [records |-> <<>>, err |-> [msg |-> "open: no such file", path |-> path]]
     ELSE IF src.quoteError
     THEN [records |-> <<>>, err |-> [msg |-> "parse error", path |-> path]]
     ELSE IF \E r \in 1..Len(src.records) :
               Len(src.records[r]) # Len(src.records[1])
     THEN [records |-> <<>>,
           err |-> [msg |-> "wrong number of fields", path |-> path]]
     ELSE [records |-> src.records, err |-> Nil]

\* (c *CSV) Read(): the table after the call and the error returned
Read(t) ==
  IF t.FilePath = <<>>
  THEN [c |-> t, err |-> [msg |-> "file path is empty", path |-> <<>>]]
  ELSE LET all == ReadAll(t.FilePath)
           noOfRecords == Len(all.records)
       IN IF all.err # Nil THEN [c |-> t, err |-> all.err]
          ELSE IF noOfRecords = 0
          THEN [c |-> t, err |-> [msg |-> "no records found", path |-> t.FilePath]]
          ELSE [c |-> CSV(t.FilePath, t.Delimiter,
                          t.Headers \o
                            [i \in 1..Len(all.records[1]) |->
                               Column(all.records[1][i], StringType)],
                          IF noOfRecords > 1
                          THEN [r \in 1..(noOfRecords - 1) |->
                                  [j \in 1..Len(all.records[r + 1]) |->
                                     TextCell(all.records[r + 1][j])]]
                          ELSE t.Records),
                err |-> Nil]

\* --------------------------------------------------------- processFiles
\* New(WithFilePath(filePath), WithDelimiter(delimiter))
NewFile(filePath, delimiter) == CSV(filePath, delimiter, <<>>, <<>>)

ValidPath(filePath) == HasSuffix(TrimSpace(filePath), DotCsv)

\* errors = append(errors, result.err)
appendErrorKeepFirstMut(errs, err) ==
  IF errs = <<>> THEN <<err>> ELSE errs

appendError(errs, err) == Append(errs, err)

ErrInvalidFormat ==
  [msg |-> "invalid input file format. Please provide a CSV file"]

ErrReading(errs) ==
  [msg |-> "encountered errors while reading files", errors |-> errs]

ErrNoValid == [msg |-> "no valid CSV files to merge"]

InputPaths ==
  {PathA, PathB, PathW, PathE, PathN, PathQ, PathTxt, PathSpaced}

NoWorker == [st |-> "none", result |-> Nil]

Init ==
  /\ \E len \in 0..MaxPaths : filePaths \in [1..len -> InputPaths]
  /\ pc = "loop"
  /\ idx = 1
  /\ workers = [k \in 1..Len(filePaths) |-> NoWorker]
  /\ wg = 0
  /\ closer = "none"
  /\ closed = FALSE
  /\ errors = <<>>
  /\ files = <<>>
  /\ ret = Nil
  /\ readCalls = {}
  /\ sends = [k \in 1..Len(filePaths) |-> 0]
  /\ mergeArgs = Nil
  /\ ConvertIdle
  /\ MergeIdle
  /\ OpsIdle

\* one iteration of the for loop on a path without the .csv suffix:
\* processFiles returns the error
RejectPath ==
  /\ pc = "loop"
  /\ idx <= Len(filePaths)
  /\ ~ValidPath(filePaths[idx])
  /\ ret' = [f |-> Nil, err |-> ErrInvalidFormat]
  /\ pc' = "done"
  /\ UNCHANGED <<filePaths, idx, workers, wg, closer, closed, errors, files,
                 readCalls, sends, mergeArgs, convertVars, mergeVars, opsVars>>

\* one iteration of the for loop on a path with the suffix: wg.Add(1) and
\* the go statement
StartWorker ==
  /\ pc = "loop"
  /\ idx <= Len(filePaths)
  /\ ValidPath(filePaths[idx])
  /\ wg' = wg + 1
  /\ workers' = [workers EXCEPT ![idx] = [st |-> "started", result |-> Nil]]
  /\ idx' = idx + 1
  /\ UNCHANGED <<filePaths, pc, closer, closed, errors, files, ret,
                 readCalls, sends, mergeArgs, convertVars, mergeVars, opsVars>>

\* the loop is over: the go statement of the closing goroutine, and the
\* caller enters the range over resultChannel
StartCloser ==
  /\ pc = "loop"
  /\ idx > Len(filePaths)
  /\ closer' = "wait"
  /\ pc' = "range"
  /\ UNCHANGED <<filePaths, idx, workers, wg, closed, errors, files, ret,
                 readCalls, sends, mergeArgs, convertVars, mergeVars, opsVars>>

\* worker k: file.New(...) and f.Read(); it is then at its send
WorkerRead(k) ==
  /\ workers[k].st = "started"
  /\ LET r == Read(NewFile(TrimSpace(filePaths[k]), ","))
     IN workers' = [workers EXCEPT ![k] =
          [st |-> "send",
           result |-> IF r.err # Nil THEN [file |-> Nil, err |-> r.err]
                      ELSE [file |-> r.c, err |-> Nil]]]
  /\ readCalls' = readCalls \cup {k}
  /\ UNCHANGED <<filePaths, pc, idx, wg, closer, closed, errors, files, ret,
                 sends, mergeArgs, convertVars, mergeVars, opsVars>>

\* resultChannel is unbuffered: worker k's send and the caller's receive
\* happen together, and the caller runs the body of its range loop
Receive(k) ==
  /\ workers[k].st = "send"
  /\ pc = "range"
  /\ ~closed
  /\ LET result == workers[k].result
     IN IF result.err # Nil
        THEN errors' = appendError(errors, result.err) /\ files' = files
        ELSE files' = Append(files, result.file) /\ errors' = errors
  /\ workers' = [workers EXCEPT ![k].st = "sent"]
  /\ sends' = [sends EXCEPT ![k] = @ + 1]
  /\ UNCHANGED <<filePaths, pc, idx, wg, closer, closed, ret, readCalls,
                 mergeArgs, convertVars, mergeVars, opsVars>>

\* worker k returns: the deferred wg.Done()
WorkerDone(k) ==
  /\ workers[k].st = "sent"
  /\ wg' = wg - 1
  /\ workers' = [workers EXCEPT ![k].st = "done"]
  /\ UNCHANGED <<filePaths, pc, idx, closer, closed, errors, files, ret,
                 readCalls, sends, mergeArgs, convertVars, mergeVars, opsVars>>

\* wg.Wait() blocks until the counter is zero
waitReturnsEarlyMut(counter) == counter <= 1

waitReturns(counter) == counter = 0

\* wg.Wait() returns; close(resultChannel)
Close ==
  /\ closer = "wait"
  /\ waitReturns(wg)
  /\ closed' = TRUE
  /\ closer' = "done"
  /\ UNCHANGED <<filePaths, pc, idx, workers, wg, errors, files, ret,
                 readCalls, sends, mergeArgs, convertVars, mergeVars, opsVars>>

\* the range loop ends on the closed channel; the rest of processFiles
Return ==
  /\ pc = "range"
  /\ closed
  /\ IF Len(errors) > 0
     THEN ret' = [f |-> Nil, err |-> ErrReading(errors)] /\ mergeArgs' = mergeArgs
     ELSE IF Len(files) = 0
     THEN ret' = [f |-> Nil, err |-> ErrNoValid] /\ mergeArgs' = mergeArgs
     ELSE ret' = Merge(files) /\ mergeArgs' = files
  /\ pc' = "done"
  /\ UNCHANGED <<filePaths, idx, workers, wg, closer, closed, errors, files,
                 readCalls, sends, convertVars, mergeVars, opsVars>>

Next ==
  \/ RejectPath
  \/ StartWorker
  \/ StartCloser
  \/ \E k \in 1..Len(workers) : WorkerRead(k)
  \/ \E k \in 1..Len(workers) : Receive(k)
  \/ \E k \in 1..Len(workers) : WorkerDone(k)
  \/ Close
  \/ Return

Spec == Init /\ [][Next]_vars


\* The Go scheduler runs every goroutine that can take a step: weak
\* fairness for the caller's steps, for each worker's steps and for the
\* closing goroutine.  A send with no receiver is not a step.
Fairness ==
  /\ WF_vars(RejectPath)
  /\ WF_vars(StartWorker)
  /\ WF_vars(StartCloser)
  /\ WF_vars(Close)
  /\ WF_vars(Return)
  /\ \A k \in 1..MaxPaths :
       /\ WF_vars(k <= Len(workers) /\ WorkerRead(k))
       /\ WF_vars(k <= Len(workers) /\ Receive(k))
       /\ WF_vars(k <= Len(workers) /\ WorkerDone(k))

FairSpec == Init /\ [][Next]_vars /\ Fairness


\* ------------------------------------------ the public operations, freely
\* A caller holds tables built with New(WithFilePath(..), WithDelimiter(..))
\* and calls Read, ConvertColumnTypes and Merge on them in any order.  It
\* keeps the result of a successful Merge in place of the tables merged.
OpsPaths == {PathA, PathW, PathH, PathE}

InitOps ==
  /\ \E len \in 1..MaxHeld :
       \E ps \in [1..len -> OpsPaths] :
         tabs = [j \in 1..len |-> NewFile(ps[j], ",")]
  /\ panicked = FALSE
  /\ nops = 0
  /\ ConvertIdle
  /\ MergeIdle
  /\ IngestIdle

\* tabs[j].Read(); on an error the table is as it was
OpRead(j) ==
  /\ ~panicked
  /\ nops < MaxOps
  /\ tabs' = [tabs EXCEPT ![j] = Read(tabs[j]).c]
  /\ nops' = nops + 1
  /\ UNCHANGED <<panicked, convertVars, mergeVars, ingestVars>>

\* tabs[j].ConvertColumnTypes()
OpConvert(j) ==
  /\ ~panicked
  /\ nops < MaxOps
  /\ IF IndexPanics(tabs[j])
     THEN panicked' = TRUE /\ tabs' = tabs
     ELSE panicked' = panicked
          /\ tabs' = [tabs EXCEPT ![j] = ConvertColumnTypes(tabs[j])]
  /\ nops' = nops + 1
  /\ UNCHANGED <<convertVars, mergeVars, ingestVars>>

\* Merge(tabs...)
OpMerge ==
  /\ ~panicked
  /\ nops < MaxOps
  /\ LET m == Merge(tabs)
     IN tabs' = IF m.err = Nil THEN <<m.f>> ELSE tabs
  /\ nops' = nops + 1
  /\ UNCHANGED <<panicked, convertVars, mergeVars, ingestVars>>

NextOps ==
  \/ \E j \in 1..Len(tabs) : OpRead(j)
  \/ \E j \in 1..Len(tabs) : OpConvert(j)
  \/ OpMerge

SpecOps == InitOps /\ [][NextOps]_vars

\* ------------------------------------------------------------ input sets
Texts ==
  { <<"7">>, <<"-", "3">>, <<"1", ".", "5">>, <<"x">> }

ColumnNames == <<"Column1", "Column2">>

\* the rows where a column's one deviant cell is put: the first row, the
\* last row of the sample window, the first row beyond it, the last row
DeviantRows(n) ==
  IF n = 0 THEN {1}
  ELSE {1, defaultTypeInferanceRows, defaultTypeInferanceRows + 1, n} \cap 1..n

\* a column of n text cells: a everywhere but b in row p
ColumnCells(n, a, b, p) == [r \in 1..n |-> IF r = p THEN b ELSE a]

\* New(WithHeaders(..), WithRecords(..)) with k columns of declared types ty
\* and n rows of text: the first column is a/b/p, a second column, when
\* present, is uniformly u
BuiltTable(k, n, ty, a, b, p, u) ==
  CSV(<<>>, ",",
      [i \in 1..k |-> Column(ColumnNames[i], ty[i])],
      [r \in 1..n |->
         [i \in 1..k |-> TextCell(IF i = 1 THEN ColumnCells(n, a, b, p)[r]
                                  ELSE u)]])


\* ----------------------------------------------------------- Merge spec
HeaderVariants ==
  << [names |-> <<"h1", "h2">>, type |-> StringType, delim |-> ","],
     [names |-> <<"x1", "x2">>, type |-> FloatType, delim |-> ";"] >>

PathNames == << <<"a">>, <<"b">>, <<"c">>, <<"d">> >>

RowDigits == <<"1", "2", "3", "4">>

\* an input table of Merge: k columns, n rows; each cell's text names the
\* table and the row, so that every row of every input is distinct
MergeInput(j, k, n, hv) ==
  CSV(PathNames[j], HeaderVariants[hv].delim,
      [i \in 1..k |->
         Column(HeaderVariants[hv].names[i], HeaderVariants[hv].type)],
      [r \in 1..n |-> [i \in 1..k |-> TextCell(PathNames[j] \o <<RowDigits[r]>>)]])

InitMerge ==
  /\ \E len \in 0..MaxTables :
       \E ks \in [1..len -> 1..2], ns \in [1..len -> 0..MaxMergeRows],
          hvs \in [1..len -> 1..Len(HeaderVariants)] :
         mfiles = [j \in 1..len |-> MergeInput(j, ks[j], ns[j], hvs[j])]
  /\ mfiles0 = mfiles
  /\ mret = Nil
  /\ mpc = "new"
  /\ ConvertIdle
  /\ IngestIdle
  /\ OpsIdle

\* one call Merge(mfiles...); mfiles0 is the argument as passed
MergeCall ==
  /\ mpc = "new"
  /\ mret' = Merge(mfiles)
  /\ mpc' = "done"
  /\ UNCHANGED <<mfiles, mfiles0, convertVars, ingestVars,
                 opsVars>>

NextMerge == MergeCall

SpecMerge == InitMerge /\ [][NextMerge]_vars

\* ------------------------------------------------- table operations spec
InitConvert ==
  /\ \E k \in 1..Len(ColumnNames), n \in 0..MaxRows :
       \E p \in DeviantRows(n), a \in Texts, b \in Texts :
         \E u \in (IF k = 1 THEN {a} ELSE Texts),
            ty \in [1..k -> ColumnTypes] :
           c = BuiltTable(k, n, ty, a, b, p, u)
  /\ c0 = c
  /\ c1 = c
  /\ cpc = "new"
  /\ MergeIdle
  /\ IngestIdle
  /\ OpsIdle

\* c0 is the table as built, c1 the table after the first conversion
\* c.inferColumnTypes() on its own (InferColumnTypes in the tests)
InferColumnTypes ==
  /\ cpc = "new"
  /\ c' = [c EXCEPT !.Headers = inferColumnTypes(c.Headers, c.Records)]
  /\ cpc' = "inferred"
  /\ UNCHANGED <<c0, c1, mergeVars, ingestVars, opsVars>>

\* c.ConvertColumnTypes(), first call
ConvertOnce ==
  /\ cpc = "new"
  /\ c' = ConvertColumnTypes(c)
  /\ c1' = c'
  /\ cpc' = "once"
  /\ UNCHANGED <<c0, mergeVars, ingestVars, opsVars>>

\* c.ConvertColumnTypes(), second call on the same table
ConvertTwice ==
  /\ cpc = "once"
  /\ c' = ConvertColumnTypes(c)
  /\ cpc' = "twice"
  /\ UNCHANGED <<c0, c1, mergeVars, ingestVars, opsVars>>

NextConvert == InferColumnTypes \/ ConvertOnce \/ ConvertTwice

SpecConvert == InitConvert /\ [][NextConvert]_vars

\* ------------------------------------------- properties of the table spec
Cols(t) == 1..Len(t.Headers)

Rows(t) == 1..Len(t.Records)

\* the sample window: the first min(20, rows) rows
SampleWindow(t) == 1..Min(defaultTypeInferanceRows, Len(t.Records))

AllStringColumns(t) == \A i \in Cols(t) : t.Headers[i].Type = StringType

AllTextCells(t) == \A r \in Rows(t) : \A i \in Cols(t) : IsText(t.Records[r][i])

IntegerSample(t, i) ==
  \A r \in SampleWindow(t) :
    IsText(t.Records[r][i]) /\ ParseInt(t.Records[r][i].s).ok

Unparseable(cell) ==
  IsText(cell) /\ ~ParseFloat(cell.s).ok /\ ~ParseInt(cell.s).ok

\* C2: a String column of a table with at least one row, whose sampled
\* cells all parse as base-10 64-bit integers, is Integer after infer, and
\* after convert its sampled cells are 64-bit integers.
C2_IntegerSampleIsInteger ==
  \A i \in Cols(c0) :
    (/\ Len(c0.Records) >= 1
     /\ c0.Headers[i].Type = StringType
     /\ IntegerSample(c0, i))
    => /\ cpc \in {"inferred", "once"} => c.Headers[i].Type = IntegerType
       /\ cpc = "once" =>
            \A r \in SampleWindow(c0) :
              c.Records[r][i] = IntCell(ParseInt(c0.Records[r][i].s).v)

\* C5: infer and convert change no column type of a table with zero rows.
C5_ZeroRowsKeepTypes ==
  (Len(c0.Records) = 0 /\ AllStringColumns(c0) /\ cpc # "new")
  => AllStringColumns(c)

\* C8: on a table as the reader produces it (all columns String, all cells
\* text) a second convert changes neither column types nor cells.
C8_ConvertIdempotent ==
  (cpc = "twice" /\ AllStringColumns(c0) /\ AllTextCells(c0))
  => (c.Headers = c1.Headers /\ c.Records = c1.Records)

\* the second convert ran on a table longer than the sample window whose
\* first column was made Float and holds converted cells and, beyond the
\* window, a cell that does not parse and stayed text
C8_Witness ==
  /\ cpc = "twice"
  /\ AllStringColumns(c0) /\ AllTextCells(c0)
  /\ Len(c0.Records) > defaultTypeInferanceRows
  /\ c1.Headers[1].Type = FloatType
  /\ c1.Records[1][1].t = "float64"
  /\ Unparseable(c1.Records[Len(c1.Records)][1])

\* C9: a String column with a sampled cell that parses neither as float
\* nor as integer is still String after infer.
C9_UnparseableKeepsString ==
  cpc = "inferred" =>
    \A i \in Cols(c0) :
      (/\ c0.Headers[i].Type = StringType
       /\ \E r \in SampleWindow(c0) : Unparseable(c0.Records[r][i]))
      => c.Headers[i].Type = StringType

\* infer ran on a String column whose sample has one unparseable cell
\* among numeric ones
C9_Witness ==
  /\ cpc = "inferred"
  /\ c0.Headers[1].Type = StringType
  /\ Len(c0.Records) >= 2
  /\ \E r \in SampleWindow(c0) :
       /\ Unparseable(c0.Records[r][1])
       /\ \A q \in SampleWindow(c0) \ {r} : ParseFloat(c0.Records[q][1].s).ok
  /\ c.Headers[1].Type = StringType

\* C10: ConvertColumnTypes on a table with declared column types and text
\* cells makes every parseable cell of an Integer column a 64-bit integer
\* and every parseable cell of a Float column a 64-bit float, and leaves
\* the cells of those columns that do not parse as their text.  (Stated for
\* the Integer and Float columns only: a String column is what inference
\* is there to change.)
C10_DeclaredTypesConvert ==
  (cpc = "once" /\ AllTextCells(c0)) =>
    \A r \in Rows(c0) : \A i \in Cols(c0) :
      LET cell == c0.Records[r][i]
          ty == c0.Headers[i].Type
      IN /\ ty = IntegerType =>
              c.Records[r][i] = IF ParseInt(cell.s).ok
                                THEN IntCell(ParseInt(cell.s).v) ELSE cell
         /\ ty = FloatType =>
              c.Records[r][i] =
                IF ParseFloat(cell.s).ok
                THEN FloatCell(ParseFloat(cell.s).m, ParseFloat(cell.s).e)
                ELSE cell

\* ------------------------------------------- properties of the Merge spec
EqualColumnCounts(list) ==
  \A j \in 1..Len(list) : Len(list[j].Headers) = Len(list[1].Headers)

RECURSIVE RowsBefore(_, _)
RowsBefore(list, j) ==
  IF j <= 1 THEN 0 ELSE RowsBefore(list, j - 1) + Len(list[j - 1].Records)

\* C6: Merge of a non-empty sequence of tables with equal column counts
\* succeeds; the result has the first table's columns and delimiter, and
\* its rows are the inputs' rows, table after table, each table's rows in
\* their order: row r of table j is row RowsBefore(j) + r of the result.
C6_MergeConcatenates ==
  (mpc = "done" /\ Len(mfiles0) > 0 /\ EqualColumnCounts(mfiles0)) =>
    /\ mret.err = Nil
    /\ mret.f # Nil
    /\ mret.f.Headers = mfiles0[1].Headers
    /\ mret.f.Delimiter = mfiles0[1].Delimiter
    /\ Len(mret.f.Records) = RowsBefore(mfiles0, Len(mfiles0) + 1)
    /\ \A j \in 1..Len(mfiles0) : \A r \in 1..Len(mfiles0[j].Records) :
         mret.f.Records[RowsBefore(mfiles0, j) + r] = mfiles0[j].Records[r]

\* Merge returned for three tables of equal column count, the first and the
\* last with two rows each
C6_Witness ==
  /\ mpc = "done"
  /\ Len(mfiles0) = 3
  /\ EqualColumnCounts(mfiles0)
  /\ Len(mfiles0[1].Records) = 2
  /\ Len(mfiles0[3].Records) = 2
  /\ mfiles0[2].Headers # mfiles0[1].Headers
  /\ mret.f # Nil
  /\ Len(mret.f.Records) >= 4

\* C7: Merge fails with the inconsistent-columns error exactly when some
\* table's column count differs from the first table's, and with the
\* no-files error exactly on the empty sequence; a failed Merge returns no
\* table; Merge changes no input table.
C7_MergeErrors ==
  mpc = "done" =>
    /\ (mret.err # Nil /\ mret.err.msg = "inconsistent number of columns")
         <=> (Len(mfiles0) > 0 /\ ~EqualColumnCounts(mfiles0))
    /\ (mret.err = ErrNoFiles) <=> (Len(mfiles0) = 0)
    /\ mret.err # Nil => mret.f = Nil
    /\ mfiles = mfiles0

\* Merge failed on three tables of which only the last differs from the
\* first in column count
C7_Witness ==
  /\ mpc = "done"
  /\ Len(mfiles0) = 3
  /\ Len(mfiles0[2].Headers) = Len(mfiles0[1].Headers)
  /\ Len(mfiles0[3].Headers) # Len(mfiles0[1].Headers)
  /\ mret.err # Nil
  /\ mret.f = Nil

\* ------------------------------------ properties of the processFiles spec
AllValid == \A k \in 1..Len(filePaths) : ValidPath(filePaths[k])

\* what reading the k-th path yields
ReadOf(k) == Read(NewFile(TrimSpace(filePaths[k]), ","))

Failing == {k \in 1..Len(filePaths) : ReadOf(k).err # Nil}

\* C1: with two or more paths, all valid and all read successfully, the
\* tables handed to Merge are the paths' tables in the order of the path
\* list, and the merged rows are the tables' rows in that order.
C1_MergeInPathOrder ==
  (pc = "done" /\ Len(filePaths) >= 2 /\ AllValid /\ Failing = {}) =>
    /\ mergeArgs = [k \in 1..Len(filePaths) |-> ReadOf(k).c]
    /\ ret.f # Nil =>
         ret.f.Records =
           mergedFiles([k \in 1..Len(filePaths) |-> ReadOf(k).c])

\* C3: when some path of the list lacks the .csv suffix, no worker is ever
\* started and no source is ever read, and the call returns the
\* invalid-format error.
C3_InvalidPathNoWork ==
  (~AllValid) =>
    /\ \A k \in 1..Len(workers) : workers[k].st = "none"
    /\ readCalls = {}
    /\ pc = "done" => (ret.f = Nil /\ ret.err = ErrInvalidFormat)

\* C4: with all paths valid and k >= 1 workers failing, processFiles
\* returns the read error carrying exactly the failing workers' errors
\* (each as many times as workers failed with it), returns no table, and
\* Merge is not called.
C4_AllErrorsAggregated ==
  (pc = "done" /\ AllValid /\ Failing # {}) =>
    /\ ret.f = Nil
    /\ mergeArgs = Nil
    /\ ret.err = ErrReading(errors)
    /\ Len(errors) = Cardinality(Failing)
    /\ \A k \in Failing :
         Cardinality({q \in 1..Len(errors) : errors[q] = ReadOf(k).err})
           = Cardinality({j \in Failing : ReadOf(j).err = ReadOf(k).err})

\* processFiles returned for three valid paths of which two failed, with
\* different errors, after the one good table was received first
C4_Witness ==
  /\ pc = "done"
  /\ AllValid
  /\ Len(filePaths) = 3
  /\ Cardinality(Failing) = 2
  /\ Len(errors) = 2
  /\ errors[1] # errors[2]
  /\ Len(files) = 1
  /\ ret.f = Nil

\* C11: in a call whose paths are all valid, every worker sends one result
\* and no more, a result being a table or an error and never both; the
\* channel is closed only when all workers have returned, so that no worker
\* is at or before its send once the channel is closed; and the caller has
\* received as many results as there are paths when it leaves the range
\* loop.
C11_OneResultPerWorker ==
  AllValid =>
    /\ \A k \in 1..Len(filePaths) :
         /\ sends[k] <= 1
         /\ workers[k].st \in {"send", "sent", "done"} =>
              (workers[k].result.file = Nil) # (workers[k].result.err = Nil)
    /\ closed => \A k \in 1..Len(filePaths) :
                   workers[k].st = "done" /\ sends[k] = 1
    /\ pc = "done" =>
         /\ Len(errors) + Len(files) = Len(filePaths)
         /\ \A k \in 1..Len(filePaths) : sends[k] = 1

\* the caller returned from a call with three valid paths after receiving
\* both tables and errors
C11_Witness ==
  /\ pc = "done"
  /\ AllValid
  /\ Len(filePaths) = 3
  /\ closed
  /\ Len(errors) >= 1
  /\ Len(files) >= 1
  /\ \A k \in 1..3 : sends[k] = 1

Started(k) == k <= Len(workers) /\ workers[k].st # "none"

Returned(k) == k <= Len(workers) /\ workers[k].st = "done"

\* C12: under fair scheduling every worker that was started eventually
\* returns (after its one send), also in a call that returns early on an
\* invalid path, and processFiles eventually returns.
C12_WorkersTerminate ==
  /\ \A k \in 1..MaxPaths : Started(k) ~> Returned(k)
  /\ <>(pc = "done")

\* ----------------------------- properties of the public operations' spec
\* C13: after any sequence of Read, ConvertColumnTypes and Merge on tables
\* built with New, every record of every table has as many cells as the
\* table has headers.
C13_RowWidth ==
  \A j \in 1..Len(tabs) : \A r \in 1..Len(tabs[j].Records) :
    Len(tabs[j].Records[r]) = Len(tabs[j].Headers)

====
